---------------------------- MODULE Spec2Model ----------------------------
(***************************************************************************)
(* Model of atlanta_food_desert_gui_render.py: the tables loaded at import *)
(* time, the selection order computed once at startup                      *)
(* (simulate_greedy_selection), the metrics estimator (calculate_metrics)  *)
(* and the Dash callback update_visualization.                             *)
(*                                                                         *)
(* Numbers that the program holds as floats are modelled as exact          *)
(* rationals <<numerator, denominator>> in lowest terms.  For every p in   *)
(* 0..57 the program's float results differ from the exact ones by at most *)
(* a few units in the last place, and int() of the float interpolations of *)
(* tracts and hunv equals the truncation of the exact ones.                *)
(***************************************************************************)
EXTENDS Integers, Sequences, FiniteSets, TLC

VARIABLES
    phase,                     \* "import": tables loaded, line 67 done; "serving": line 126 done
    df_demand,                 \* food-desert tracts, rows [demand_id, weight]
    df_existing,               \* existing stores, rows [index, facility_id]
    df_candidates,             \* candidate facilities, rows [index, facility_id]
    df_stops,                  \* MARTA stops, rows [stop_id]
    FACILITY_SELECTION_ORDER,  \* the module-level list of line 126
    p,                         \* the value of the 'p-slider' input
    visible_layers,            \* the value of the 'layer-toggles' input
    outcome,                   \* of the latest callback: "none", "ok" or "ValueError"
    fig,                       \* the figure the latest callback returned: a sequence of traces
    metrics                    \* the record calculate_metrics returned to the latest callback

vars == <<phase, df_demand, df_existing, df_candidates, df_stops,
          FACILITY_SELECTION_ORDER, p, visible_layers, outcome, fig, metrics>>

---------------------------------------------------------------------------
(* Bounds of the model *)

SmallCandidates == 3    \* candidate tables of 0..SmallCandidates rows ...
ExtraCandidates == 1    \* ... and of max_p..max_p+ExtraCandidates rows
MaxShift == 1           \* the sampled orders tried: rotations by 0..MaxShift, and their reversals
PSlack == 2             \* callback inputs p range over slider_min-PSlack..slider_max+PSlack
NumExisting == 2        \* rows of df_existing
NumDemand == 2          \* rows of df_demand
NumStops == 2           \* rows of df_stops

(* Program constants *)

max_p == 57
slider_min == 0
slider_max == 57

NoOutput == "None"
ValueError == "ValueError"

\* what a call ends in: a returned value, or a raised exception
Returned(v) == [exc |-> "", value |-> v]
Raised(e) == [exc |-> e]

---------------------------------------------------------------------------
(* Exact arithmetic standing for Python's float arithmetic *)

Abs(x) == IF x < 0 THEN -x ELSE x

\* functions, not operators: their arguments are evaluated once
GCD[a \in Nat, b \in Nat] == IF b = 0 THEN a ELSE GCD[b, a % b]

Reduce(n, d, g) == IF d < 0 THEN <<(-n) \div g, (-d) \div g>> ELSE <<n \div g, d \div g>>

LowestTerms[n \in Int, d \in Int] == Reduce(n, d, GCD[Abs(n), Abs(d)])

Rat(n, d) == LowestTerms[n, d]

Dec(h) == Rat(h, 100)          \* a literal written with two decimals, 48.02 = Dec(4802)
RatOfInt(n) == <<n, 1>>

RatAdd(a, b) == Rat(a[1] * b[2] + b[1] * a[2], a[2] * b[2])
RatSub(a, b) == Rat(a[1] * b[2] - b[1] * a[2], a[2] * b[2])
RatMul(a, b) == Rat(a[1] * b[1], a[2] * b[2])
RatDiv(a, b) == Rat(a[1] * b[2], a[2] * b[1])
RatLE(a, b) == a[1] * b[2] <= b[1] * a[2]
RatLT(a, b) == a[1] * b[2] < b[1] * a[2]

PyRound(r) == (2 * r[1] + r[2]) \div (2 * r[2])

\* int(x): truncation toward zero
PyInt(r) == IF r[1] >= 0 THEN r[1] \div r[2] ELSE -((-r[1]) \div r[2])

---------------------------------------------------------------------------
(* Python built-ins on lists *)

SetMax(S) == CHOOSE x \in S : \A y \in S : y <= x
SetMin(S) == CHOOSE x \in S : \A y \in S : x <= y

PyMinClamped(S) == IF S = {} THEN Returned(slider_max) ELSE Returned(SetMin(S))

\* max(list) and min(list): ValueError on an empty list
PyMax(S) == IF S = {} THEN Raised(ValueError) ELSE Returned(SetMax(S))
PyMin(S) == IF S = {} THEN Raised(ValueError) ELSE Returned(SetMin(S))

Min2(a, b) == IF a < b THEN a ELSE b
Max2(a, b) == IF a > b THEN a ELSE b

PySliceLast(s, n) ==
    LET k == IF n <= 0 THEN Len(s) ELSE Min2(n, Len(s))
    IN  SubSeq(s, Len(s) - k + 1, Len(s))

\* s[:n], for any integer n (a negative n counts from the end)
PySliceTo(s, n) ==
    LET stop == IF n < 0 THEN Max2(Len(s) + n, 0) ELSE Min2(n, Len(s))
    IN  SubSeq(s, 1, stop)

Range(s) == {s[i] : i \in 1..Len(s)}


---------------------------------------------------------------------------
(* load_data: the tables as they stand after line 67 *)

\* the facility_id column; row labels and ids are different values
FacilityId(index) == 1000 + index

\* df_facilities[df_facilities['facility_type'] == 'existing']: the rows keep
\* the labels they had in df_facilities (existing rows first, then candidates)
ExistingTable == [i \in 1..NumExisting |-> [index |-> i - 1, facility_id |-> FacilityId(i - 1)]]

CandidateTable(n) ==
    [i \in 1..n |-> [index |-> NumExisting + i - 1,
                     facility_id |-> FacilityId(NumExisting + i - 1)]]

DemandTable == [i \in 1..NumDemand |-> [demand_id |-> i, weight |-> 100 * i + 7]]

StopTable == [i \in 1..NumStops |-> [stop_id |-> i]]

CandidateCounts == (0..SmallCandidates) \cup (max_p..(max_p + ExtraCandidates))

---------------------------------------------------------------------------
(* simulate_greedy_selection *)

\* df.sample(n=k).index.tolist(): k distinct row labels of df in the order the
\* seeded generator draws them.  The order numpy draws for seed 42 is not
\* modelled; the sample is one of a family of orders: the rows rotated by
\* shift, read forwards or backwards.
SampleIndex(df, k, shift, backwards) ==
    LET n == Len(df)
        pos(i) == LET j == ((i - 1 + shift) % n) + 1
                  IN  IF backwards THEN n + 1 - j ELSE j
    IN  [i \in 1..k |-> df[pos(i)].index]

Samples(df, k) ==
    {SampleIndex(df, k, shift, backwards) : shift \in 0..MaxShift, backwards \in BOOLEAN}

\* df.loc[idx, 'facility_id']
Loc(df, idx) == (CHOOSE i \in 1..Len(df) : df[i].index = idx)

SampleSize(df, maxp) == Min2(maxp, Len(df))

simulate_greedy_selection_labels(df, selected_order, maxp) ==
    PySliceTo(selected_order, maxp)

simulate_greedy_selection(df, selected_order, maxp) ==
    LET cut == PySliceTo(selected_order, maxp)
    IN  [i \in 1..Len(cut) |-> df[Loc(df, cut[i])].facility_id]

---------------------------------------------------------------------------
(* calculate_metrics *)

baseline_time == Dec(4802)

metrics_lookup ==
    (0 :> [time |-> Dec(4802), tracts |-> 0, hunv |-> 0]) @@
    (1 :> [time |-> Dec(4541), tracts |-> 2, hunv |-> 1220]) @@
    (2 :> [time |-> Dec(4304), tracts |-> 4, hunv |-> 1890]) @@
    (5 :> [time |-> Dec(3829), tracts |-> 11, hunv |-> 4427]) @@
    (10 :> [time |-> Dec(3386), tracts |-> 21, hunv |-> 7266]) @@
    (15 :> [time |-> Dec(3031), tracts |-> 31, hunv |-> 9273]) @@
    (20 :> [time |-> Dec(2787), tracts |-> 38, hunv |-> 11072]) @@
    (30 :> [time |-> Dec(2514), tracts |-> 49, hunv |-> 13349]) @@
    (40 :> [time |-> Dec(2301), tracts |-> 57, hunv |-> 14232]) @@
    (50 :> [time |-> Dec(2083), tracts |-> 57, hunv |-> 14232]) @@
    (57 :> [time |-> Dec(2000), tracts |-> 57, hunv |-> 14232])

keys == DOMAIN metrics_lookup

RECURSIVE SumWeights(_, _)
SumWeights(df, i) == IF i = 0 THEN 0 ELSE df[i].weight + SumWeights(df, i - 1)

ratio_from_upper(q, lower, upper) ==
    IF upper # lower THEN Rat(upper - q, upper - lower) ELSE RatOfInt(0)

\* line 104
ratio(q, lower, upper) ==
    IF upper # lower THEN Rat(q - lower, upper - lower) ELSE RatOfInt(0)

\* lo + ratio * (hi - lo), lines 106-108
Lerp(lo, hi, r) == RatAdd(lo, RatMul(r, RatSub(hi, lo)))

truncate_rounding(x) == PyRound(x)

\* the int(...) of lines 107-108
truncate(x) == PyInt(x)

\* lines 105-109
interpolate_between(lo, hi, r) ==
    [time |-> Lerp(lo.time, hi.time, r),
     tracts |-> truncate(Lerp(RatOfInt(lo.tracts), RatOfInt(hi.tracts), r)),
     hunv |-> truncate(Lerp(RatOfInt(lo.hunv), RatOfInt(hi.hunv), r))]

interpolate(q, lower, upper) ==
    interpolate_between(metrics_lookup[lower], metrics_lookup[upper], ratio(q, lower, upper))

\* line 102
lower_key(q) == PyMax({k \in keys : k <= q})
\* line 103
upper_key(q) == PyMin({k \in keys : k >= q})

improvement_negated(m) == RatSub(m.time, baseline_time)

\* line 111
improvement_of(m) == RatSub(baseline_time, m.time)

\* line 112
improvement_pct_of(imp) == RatMul(RatDiv(imp, baseline_time), RatOfInt(100))

derived_swapped(m) ==
    [weighted_avg_time |-> m.time,
     tracts_served |-> m.hunv,
     hunv_served |-> m.tracts,
     improvement |-> improvement_of(m),
     improvement_pct |-> improvement_pct_of(improvement_of(m)),
     baseline_time |-> baseline_time]

\* lines 111-119 and 122: the fields of the result that depend on p alone
derived(m) ==
    [weighted_avg_time |-> m.time,
     tracts_served |-> m.tracts,
     hunv_served |-> m.hunv,
     improvement |-> improvement_of(m),
     improvement_pct |-> improvement_pct_of(improvement_of(m)),
     baseline_time |-> baseline_time]

\* lines 101-109: max() of line 102 is called first, then min() of line 103
interpolated(q, lower, upper) ==
    IF lower.exc # "" THEN Raised(lower.exc)
    ELSE IF upper.exc # "" THEN Raised(upper.exc)
    ELSE Returned(derived(interpolate(q, lower.value, upper.value)))

\* lines 98-119
estimate(q) ==
    IF q \in keys
    THEN Returned(derived(metrics_lookup[q]))
    ELSE interpolated(q, lower_key(q), upper_key(q))

\* the values of p the callback is called with
Inputs == (slider_min - PSlack)..(slider_max + PSlack)

\* estimate is a pure function of p: tabulated once over Inputs
estimates == [q \in Inputs |-> estimate(q)]

\* lines 114-123: the record returned, with the totals of lines 82 and 120-121
with_totals(demand, e) ==
    IF e.exc # "" THEN Raised(e.exc)
    ELSE Returned([weighted_avg_time |-> e.value.weighted_avg_time,
                   tracts_served |-> e.value.tracts_served,
                   hunv_served |-> e.value.hunv_served,
                   improvement |-> e.value.improvement,
                   improvement_pct |-> e.value.improvement_pct,
                   total_tracts |-> Len(demand),
                   total_hunv |-> SumWeights(demand, Len(demand)),
                   baseline_time |-> e.value.baseline_time])

\* lines 79-123: the record returned, or the ValueError raised
calculate_metrics(demand, q) == with_totals(demand, estimates[q])

---------------------------------------------------------------------------
(* update_visualization *)

Tags == {"food_deserts", "existing", "marta", "new"}

\* the checklist's value in the layout, line 182
default_layers == {"food_deserts", "existing", "new"}

selected_ids_from_end(order, q) == PySliceLast(order, q)

\* line 221
selected_ids(order, q) == PySliceTo(order, q)

\* line 222: df[df['facility_id'].isin(ids)], the rows of df whose facility_id is
\* among ids, in df's row order
isin(df, values) == SelectSeq(df, LAMBDA row : row.facility_id \in values)

selected_rows(df, ids) == isin(df, Range(ids))

order_after_pop(order, q) == SubSeq(order, Len(PySliceTo(order, q)) + 1, Len(order))

\* line 221 reads the module-level list by slicing, which leaves the list as it is;
\* no other line of the callback names it
order_after_update(order, q) == order

new_layer_ignoring_toggle(q, layers) == q > 0

\* line 270
new_layer_drawn(q, layers) == "new" \in layers /\ q > 0

\* lines 230-238
marta_trace(stops) ==
    [layer |-> "marta", n |-> 0, text |-> <<>>,
     customdata |-> [i \in 1..Len(stops) |-> stops[i].stop_id]]

\* lines 242-250
existing_trace(existing) ==
    [layer |-> "existing", n |-> Len(existing), text |-> <<>>,
     customdata |-> [i \in 1..Len(existing) |-> existing[i].facility_id]]

\* lines 254-267
food_deserts_trace(demand) ==
    [layer |-> "food_deserts", n |-> Len(demand), text |-> <<>>,
     customdata |-> [i \in 1..Len(demand) |-> <<demand[i].demand_id, demand[i].weight>>]]

\* lines 271-287: text numbers the rows of selected_facilities 1, 2, ...
new_trace(q, selected_facilities) ==
    [layer |-> "new", n |-> q,
     text |-> [i \in 1..Len(selected_facilities) |-> i],
     customdata |-> [i \in 1..Len(selected_facilities) |-> selected_facilities[i].facility_id]]

\* lines 226-287: the traces in the order add_trace is called
build_figure(q, layers, stops, existing, demand, selected_facilities) ==
    (IF "marta" \in layers THEN <<marta_trace(stops)>> ELSE <<>>) \o
    (IF "existing" \in layers THEN <<existing_trace(existing)>> ELSE <<>>) \o
    (IF "food_deserts" \in layers THEN <<food_deserts_trace(demand)>> ELSE <<>>) \o
    (IF new_layer_drawn(q, layers) THEN <<new_trace(q, selected_facilities)>> ELSE <<>>)

\* lines 218-366, called with the two inputs' values
update_visualization(q, layers) ==
    /\ phase = "serving"
    /\ p' = q
    /\ visible_layers' = layers
    /\ \E metrics_returned \in {calculate_metrics(df_demand, q)} :
           IF metrics_returned.exc # ""
           THEN /\ outcome' = metrics_returned.exc
                /\ fig' = NoOutput
                /\ metrics' = NoOutput
           ELSE /\ outcome' = "ok"
                /\ fig' = build_figure(q, layers, df_stops, df_existing, df_demand,
                              selected_rows(df_candidates,
                                            selected_ids(FACILITY_SELECTION_ORDER, q)))
                /\ metrics' = metrics_returned.value
    /\ FACILITY_SELECTION_ORDER' = order_after_update(FACILITY_SELECTION_ORDER, q)
    /\ UNCHANGED <<phase, df_demand, df_existing, df_candidates, df_stops>>

---------------------------------------------------------------------------
(* The program *)

\* after load_data (line 67); the two inputs hold the layout's values (lines 166, 182)
Init ==
    /\ phase = "import"
    /\ df_demand = DemandTable
    /\ df_existing = ExistingTable
    /\ df_stops = StopTable
    /\ \E n \in CandidateCounts : df_candidates = CandidateTable(n)
    /\ FACILITY_SELECTION_ORDER = <<>>
    /\ p = slider_min
    /\ visible_layers = default_layers
    /\ outcome = "none"
    /\ fig = NoOutput
    /\ metrics = NoOutput

\* line 126
Startup ==
    /\ phase = "import"
    /\ \E selected_order \in Samples(df_candidates, SampleSize(df_candidates, max_p)) :
          FACILITY_SELECTION_ORDER' = simulate_greedy_selection(df_candidates, selected_order, max_p)
    /\ phase' = "serving"
    /\ UNCHANGED <<df_demand, df_existing, df_candidates, df_stops, p, visible_layers,
                   outcome, fig, metrics>>

\* the callback fired when a page is loaded, with the layout's values
PageLoad == update_visualization(slider_min, default_layers)

\* the callback fired with a new value of 'p-slider'
SliderChange == \E q \in Inputs :
                    update_visualization(q, visible_layers)

\* the callback fired with a new value of 'layer-toggles'
ToggleChange == \E layers \in SUBSET Tags : update_visualization(p, layers)

Next == Startup \/ PageLoad \/ SliderChange \/ ToggleChange

Spec == Init /\ [][Next]_vars

---------------------------------------------------------------------------
(* Properties *)

TableKeys == {0, 1, 2, 5, 10, 15, 20, 30, 40, 50, 57}
SliderRange == slider_min..slider_max
CandidateIds == {df_candidates[i].facility_id : i \in 1..Len(df_candidates)}
Occurrences(s, x) == Cardinality({i \in 1..Len(s) : s[i] = x})
Count(f, t) == Cardinality({i \in 1..Len(f) : f[i].layer = t})
Without(f, t) == SelectSeq(f, LAMBDA trace : trace.layer # t)
IsPrefix(a, b) == Len(a) <= Len(b) /\ SubSeq(b, 1, Len(a)) = a

\* C1: for every key k of the metrics table, calculate_metrics(k) returns the
\* stored record of k: weighted_avg_time, tracts_served and hunv_served are the
\* table's time, tracts and hunv of k, with no interpolation.
C1_ExactKeys ==
    /\ keys = TableKeys
    /\ (outcome = "ok" /\ p \in TableKeys) =>
          /\ metrics.weighted_avg_time = metrics_lookup[p].time
          /\ metrics.tracts_served = metrics_lookup[p].tracts
          /\ metrics.hunv_served = metrics_lookup[p].hunv

C1_Witness == outcome = "ok" /\ p = 15 /\ metrics.tracts_served = 31

\* C2: for all p1 < p2 in 0..57 the time calculate_metrics returns for p1 is
\* greater than or equal to the one it returns for p2, interpolated or not.
C2_Monotonic ==
    (outcome = "ok" /\ p \in SliderRange) =>
        \A p2 \in SliderRange :
            p < p2 => RatLE(calculate_metrics(df_demand, p2).value.weighted_avg_time,
                            metrics.weighted_avg_time)

C2_Witness == outcome = "ok" /\ p = 3 /\ RatLT(metrics.weighted_avg_time, Dec(4304))

\* C3: for every p in 0..57 that is not a table key, with lower the greatest key
\* <= p and upper the least key >= p, calculate_metrics(p) returns
\* time = time[lower] + (p-lower)/(upper-lower) * (time[upper]-time[lower])
\* exactly (about 41.457 for p = 3), and tracts and hunv as the same linear
\* interpolation truncated to an integer.
C3_Interpolation ==
    (outcome = "ok" /\ p \in SliderRange \ TableKeys) =>
        LET lower == SetMax({k \in TableKeys : k <= p})
            upper == SetMin({k \in TableKeys : k >= p})
            lo == metrics_lookup[lower]
            hi == metrics_lookup[upper]
            IsTruncated(t, a, b) ==
                LET scaled == a * (upper - lower) + (p - lower) * (b - a)
                IN  t * (upper - lower) <= scaled /\ scaled < (t + 1) * (upper - lower)
        IN  /\ lower < p /\ p < upper
            /\ RatMul(RatSub(metrics.weighted_avg_time, lo.time), RatOfInt(upper - lower))
                 = RatMul(RatOfInt(p - lower), RatSub(hi.time, lo.time))
            /\ IsTruncated(metrics.tracts_served, lo.tracts, hi.tracts)
            /\ IsTruncated(metrics.hunv_served, lo.hunv, hi.hunv)
            /\ p = 3 => /\ RatLE(Rat(414565, 10000), metrics.weighted_avg_time)
                        /\ RatLT(metrics.weighted_avg_time, Rat(414575, 10000))

C3_Witness == outcome = "ok" /\ p = 3 /\ metrics.hunv_served = 2735

\* C4: for the selection order fixed at startup and every p in 0..56, the ids
\* selected for p are a prefix of the ids selected for p+1, which adds at most
\* one facility.
C4_StablePrefix ==
    (phase = "serving" /\ p \in slider_min..(slider_max - 1)) =>
        LET now == selected_ids(FACILITY_SELECTION_ORDER, p)
            next == selected_ids(FACILITY_SELECTION_ORDER, p + 1)
        IN  IsPrefix(now, next) /\ Len(next) <= Len(now) + 1

C4_Witness ==
    /\ outcome = "ok" /\ p = 2 /\ Len(FACILITY_SELECTION_ORDER) > 2
    /\ Len(selected_ids(FACILITY_SELECTION_ORDER, p + 1)) = 3

C5_Presence ==
    outcome = "ok" =>
        /\ \A t \in Tags \ {"new"} : Count(fig, t) = IF t \in visible_layers THEN 1 ELSE 0
        /\ Count(fig, "new") = IF "new" \in visible_layers /\ p > 0 THEN 1 ELSE 0

C5_RemoveOne ==
    (outcome = "ok" /\ outcome' = "ok" /\ p' = p) =>
        \A t \in visible_layers :
            visible_layers' = visible_layers \ {t} => fig' = Without(fig, t)

\* C5: each layer is drawn only if its tag is among the toggles, the new-facilities
\* layer exactly when 'new' is among them and p > 0; taking one tag out of the
\* toggles removes that layer from the map and leaves the other layers, their
\* points and their order as they were.
C5_Toggles == [][C5_Presence' /\ C5_RemoveOne]_vars

C5_Witness ==
    /\ outcome = "ok" /\ p = 2 /\ visible_layers = {"marta", "food_deserts"}
    /\ Len(fig) = 2 /\ Len(FACILITY_SELECTION_ORDER) > 1

\* C6: calculate_metrics(p) returns improvement = 48.02 - time and
\* improvement_pct = improvement / 48.02 * 100; both are 0 at p = 0; at p = 10
\* time = 33.86, tracts = 21, hunv = 7266, improvement = 14.16 and
\* improvement_pct is 29.49 to two decimals.
C6_Improvement ==
    outcome = "ok" =>
        /\ metrics.baseline_time = Dec(4802)
        /\ RatAdd(metrics.improvement, metrics.weighted_avg_time) = Dec(4802)
        /\ RatDiv(metrics.improvement_pct, RatOfInt(100))
             = RatDiv(metrics.improvement, Dec(4802))
        /\ p = 0 => metrics.improvement = RatOfInt(0) /\ metrics.improvement_pct = RatOfInt(0)
        /\ p = 10 => /\ metrics.weighted_avg_time = Dec(3386)
                     /\ metrics.tracts_served = 21
                     /\ metrics.hunv_served = 7266
                     /\ metrics.improvement = Dec(1416)
                     /\ RatLE(Rat(29485, 1000), metrics.improvement_pct)
                     /\ RatLT(metrics.improvement_pct, Rat(29495, 1000))

C6_Witness == outcome = "ok" /\ p = 10 /\ metrics.improvement = Dec(1416)

\* C7 as stated: the selection order holds every candidate facility's id exactly
\* once and nothing else, for any number of candidates.
C7_Permutation ==
    phase = "serving" =>
        /\ \A id \in CandidateIds : Occurrences(FACILITY_SELECTION_ORDER, id) = 1
        /\ Range(FACILITY_SELECTION_ORDER) \subseteq CandidateIds

\* C7, amended: the selection order holds min(57, number of candidates) ids, each
\* a candidate facility's id and none twice; with at most 57 candidates it holds
\* every candidate's id exactly once.
C7_CappedPermutation ==
    phase = "serving" =>
        /\ Len(FACILITY_SELECTION_ORDER) = Min2(57, Len(df_candidates))
        /\ Range(FACILITY_SELECTION_ORDER) \subseteq CandidateIds
        /\ \A id \in CandidateIds : Occurrences(FACILITY_SELECTION_ORDER, id) <= 1
        /\ Len(df_candidates) <= 57 =>
              \A id \in CandidateIds : Occurrences(FACILITY_SELECTION_ORDER, id) = 1

C7_Witness ==
    /\ phase = "serving" /\ Len(df_candidates) > 57
    /\ Len(FACILITY_SELECTION_ORDER) = 57
    /\ FACILITY_SELECTION_ORDER[1] # df_candidates[1].facility_id

\* C8: once written at startup the selection order is only read: a callback
\* leaves it and the loaded tables as they were, so a callback given the inputs
\* of an earlier one returns what the earlier one returned.
C8_ReadOnly ==
    [][phase = "serving" =>
          /\ FACILITY_SELECTION_ORDER' = FACILITY_SELECTION_ORDER
          /\ df_candidates' = df_candidates
          /\ df_existing' = df_existing
          /\ df_demand' = df_demand
          /\ df_stops' = df_stops
          /\ (outcome # "none" /\ p' = p /\ visible_layers' = visible_layers) =>
                /\ outcome' = outcome
                /\ fig' = fig
                /\ metrics' = metrics]_vars

C8_Witness ==
    /\ phase = "serving" /\ outcome = "ok" /\ p = 10 /\ visible_layers = {"marta", "new"}
    /\ Len(FACILITY_SELECTION_ORDER) = 57 /\ Len(fig) = 2

\* C9: for p below 0 or above 57 calculate_metrics neither clamps nor
\* extrapolates: it returns no record and ends in an unhandled ValueError, and
\* update_visualization returns neither a map nor a metrics panel.
C9_OutOfRange ==
    (outcome # "none" /\ p \notin SliderRange) =>
        /\ calculate_metrics(df_demand, p) = Raised(ValueError)
        /\ outcome = ValueError
        /\ fig = NoOutput
        /\ metrics = NoOutput

C9_Witness == outcome = ValueError /\ p = 58 /\ fig = NoOutput

\* C10: the number shown on a facility of the new-facilities layer is the
\* facility's 1-based position in FACILITY_SELECTION_ORDER (and so is the same
\* at every p at which the facility is shown).
C10_LabelIsSelectionRank ==
    (outcome = "ok" /\ Count(fig, "new") = 1) =>
        LET trace == fig[CHOOSE i \in 1..Len(fig) : fig[i].layer = "new"]
        IN  \A i \in 1..Len(trace.text) :
                /\ trace.text[i] \in 1..Len(FACILITY_SELECTION_ORDER)
                /\ FACILITY_SELECTION_ORDER[trace.text[i]] = trace.customdata[i]

=============================================================================
